---- MODULE Spec2Model ----
(***************************************************************************)
(* The AT command transaction engine of async_gsm_modem.base.modem.ATModem *)
(* as a state machine over the asyncio event loop.                         *)
(*                                                                         *)
(* The event loop is the FIFO queue `ready` of runnable coroutines         *)
(* (loop.call_soon runs callbacks in registration order).  The coroutine   *)
(* at the head of `ready` is the one that runs; it keeps the head until it *)
(* suspends at an await or finishes.  Everything that is not at the head   *)
(* changes only through the environment: bytes arriving on the serial      *)
(* stream, read timeouts, the stream closing, transport errors, and the    *)
(* application calling send_command() or lock()/unlock().                  *)
(*                                                                         *)
(* Environment assumptions: connect() is called once, application tasks    *)
(* are not themselves cancelled, and the awaited stream read is a          *)
(* suspension point whose cancellation consumes nothing from the stream.   *)
(* A byte string is a sequence of one-character strings.                   *)
(*                                                                         *)
(* Three environments are explored.  Spec: a modem that emits up to       *)
(* MaxFeed lines in front of an application that makes MaxCalls calls.     *)
(* QuietSpec: a modem that stays silent in front of an application that    *)
(* makes MaxQuietCalls calls, where the interleavings of lock(), unlock()  *)
(* and the loop tasks they stop and start are explored in depth.           *)
(* ServiceSpec: an application that also calls close() and runs            *)
(* urc_handler_loop() as a task.                                           *)
(***************************************************************************)
EXTENDS Integers, Sequences, FiniteSets, TLC

\* ---- bounds of the model ------------------------------------------------
NCallers == 3
MaxCalls == 2
MaxFeed == 3
MaxQuietCalls == 5
MaxServiceCalls == 2
MaxServiceFeed == 2

Callers  == 1..NCallers
MaxTasks == (IF MaxCalls > MaxQuietCalls THEN MaxCalls ELSE MaxQuietCalls) + 1
TaskIds  == 1..MaxTasks

\* ---- program constants ---------------------------------------------------
RESP_TERMINATOR == <<"O", "K">>

\* lines the modem may emit (already framed: the separator is stripped)
LineCMTI == <<"+", "M", "1">>
LineCREG == <<"+", "R", "1">>
LineEmpty == <<>>
Lines == {RESP_TERMINATOR, LineCMTI, LineCREG, LineEmpty}
LineCMT2 == <<"+", "M", "2">>
ServiceLines == {RESP_TERMINATOR, LineCMTI, LineCMT2}

\* URC registries an engine may be constructed with
PrefixCMTI == <<"+", "M">>
UrcChoices == {{}, {PrefixCMTI}}

NoOne == <<"n", 0>>
CallerId(c) == <<"c", c>>
TaskId(t) == <<"t", t>>
Closer == <<"x", 0>>
ConnectionLostCallback == <<"x", 1>>
Drainer == <<"d", 0>>
CancelCallback == <<"k", 0>>

VARIABLES
    urc,             \* self.urc
    urc_buffer,      \* self.urc_buffer
    locked,          \* self._lock._locked
    waiters,         \* self._lock._waiters: futures of callers in acquire()
    read_loop_task,  \* self.read_loop_task (0 is None)
    task,            \* the read_loop tasks created so far
    awaiting,        \* done-callbacks of each task: callers in `await task`
    ntasks,          \* number of tasks created
    ready,           \* the event loop's queue of runnable coroutines
    connected,       \* connect() has run
    buffer,          \* complete lines in the StreamReader, not yet read
    reader,          \* the coroutine waiting in reader.readuntil()
    eof,             \* the stream has closed
    pc,              \* position of each caller
    kind,            \* what the caller invoked: send_command or lock/unlock
    wake,            \* how the caller's pending stream read completed
    awaited,         \* the task a caller awaits in stop_read_loop
    read_responses,  \* `responses` of read()
    responses,       \* `responses` of send_command()
    result,          \* what the last call gave its caller
    outcome,         \* how the last transaction ended
    holder,          \* history: the caller whose acquire() succeeded
    acq,             \* history: acquire() completions of the current call
    rel,             \* history: release() calls of the current call
    restarted,       \* history: the current call's unlock() started a loop
    nret,            \* history: number of lines returned in command results
    nurc,            \* history: number of lines appended to the URC buffer
    nbg,             \* history: number of lines read by the background loop
    ntaken,          \* history: number of lines taken from the stream
    calls_left,      \* calls the application will still make
    feeds_left,      \* lines the modem will still emit
    _close,          \* self._close
    closer,          \* position of the coroutine that calls close()
    drain,           \* the task running urc_handler_loop()
    cancel_req,      \* history: a cancellation of the drain task was requested
    drained,         \* history: the lines urc_handler_loop() removed
    urc_log,         \* history: the lines appended to the URC buffer
    issued_closed    \* history: the call was issued after close() marked the engine

vars == <<urc, urc_buffer, locked, waiters, read_loop_task, task, awaiting,
          ntasks, ready, connected, buffer, reader, eof, pc, kind, wake,
          awaited, read_responses, responses, result, outcome, holder, acq,
          rel, restarted, nret, nurc, nbg, ntaken, calls_left,
          feeds_left, _close, closer, drain, cancel_req, drained, urc_log,
          issued_closed>>

engineVars == <<urc, urc_buffer>>
lockVars == <<locked, waiters, holder>>
taskVars == <<read_loop_task, task, awaiting, ntasks>>
streamVars == <<buffer, reader, eof, feeds_left>>
callVars == <<kind, awaited, calls_left>>
histVars == <<nret, nurc, nbg, ntaken>>
closeVars == <<_close, closer>>
drainVars == <<drain, cancel_req, drained>>
serviceVars == <<closeVars, drainVars, urc_log, issued_closed>>
transVars == <<pc, wake, callVars, read_responses, responses, result, outcome,
               acq, rel, restarted, histVars>>

NoTask == [st |-> "none", out |-> "none", mc |-> FALSE, wake |-> "none"]
NewTask == [st |-> "new", out |-> "none", mc |-> FALSE, wake |-> "none"]
DoneTask(o) == [st |-> "done", out |-> o, mc |-> FALSE, wake |-> "none"]

NoResult == [kind |-> "none", val |-> <<>>]
Returned(v) == [kind |-> "returned", val |-> v]
Raised == [kind |-> "raised", val |-> <<>>]

Running(x) == ready # <<>> /\ Head(ready) = x

\* ---- construction --------------------------------------------------------
\* ATModem.__init__ with the URC registry `registry`, in front of an
\* application that will make `calls` calls and a modem that will emit
\* `feeds` lines.
Constructed(registry, calls, feeds) ==
    /\ urc = registry
    /\ urc_buffer = <<>>
    /\ locked = FALSE
    /\ waiters = <<>>
    /\ read_loop_task = 0
    /\ task = [t \in TaskIds |-> NoTask]
    /\ awaiting = [t \in TaskIds |-> <<>>]
    /\ ntasks = 0
    /\ ready = <<>>
    /\ connected = FALSE
    /\ buffer = <<>>
    /\ reader = NoOne
    /\ eof = FALSE
    /\ pc = [c \in Callers |-> "idle"]
    /\ kind = [c \in Callers |-> "cmd"]
    /\ wake = [c \in Callers |-> "none"]
    /\ awaited = [c \in Callers |-> 0]
    /\ read_responses = [c \in Callers |-> <<>>]
    /\ responses = [c \in Callers |-> <<>>]
    /\ result = [c \in Callers |-> NoResult]
    /\ outcome = [c \in Callers |-> "none"]
    /\ holder = 0
    /\ acq = [c \in Callers |-> 0]
    /\ rel = [c \in Callers |-> 0]
    /\ restarted = [c \in Callers |-> FALSE]
    /\ nret = 0
    /\ nurc = 0
    /\ nbg = 0
    /\ ntaken = 0
    /\ calls_left = calls
    /\ feeds_left = feeds
    /\ _close = FALSE
    /\ closer = "idle"
    /\ drain = [st |-> "none", mc |-> FALSE]
    /\ cancel_req = FALSE
    /\ drained = <<>>
    /\ urc_log = <<>>
    /\ issued_closed = [c \in Callers |-> FALSE]

Init == \E registry \in UrcChoices : Constructed(registry, MaxCalls, MaxFeed)

\* ---- pure pieces of the code ----------------------------------------------
\* bytes.startswith
startswith(line, prefix) ==
    /\ Len(prefix) <= Len(line)
    /\ SubSeq(line, 1, Len(prefix)) = prefix

\* read(): any([bytes(response).startswith(urc) for urc in self.urc])
matches_urc(line, registry) == \E p \in registry : startswith(line, p)

\* read(): the line goes to the URC buffer or to the responses
read_urc_buffer(line, registry, ubuf) ==
    IF matches_urc(line, registry) THEN Append(ubuf, line) ELSE ubuf

\* a read() that collects every line, URC or not
read_collect_all(line, registry, resps) == Append(resps, line)

read_collect(line, registry, resps) ==
    IF matches_urc(line, registry) THEN resps ELSE Append(resps, line)

\* read(): bytes(response) == terminator
is_terminator(line) == line = RESP_TERMINATOR

\* send_command(): the except clause sets responses = []
except_responses(collected) == <<>>

\* unlock(): self._lock.release() leaves the lock unlocked
released(l) == FALSE

\* asyncio.Lock.acquire(): taken at once when free and nobody waits
acquire_now(l, w) == ~l /\ w = <<>>

\* read_loop(): if self._lock.locked(): return
entry_check(l) == l

\* what a read_response() gives its caller
NoLine == [kind |-> "none", val |-> <<>>]
ALine(l) == [kind |-> "line", val |-> l]
ReadRaised == [kind |-> "raised", val |-> <<>>]

\* a read_response() that lets the timeout escape
read_response_uncaught(w, buf) ==
    CASE w = "data" -> ALine(Head(buf))
      [] w = "eof" -> NoLine
      [] OTHER -> ReadRaised

\* read_response(): the line without its separator; None when wait_for
\* raised TimeoutError or readuntil raised IncompleteReadError; any other
\* exception propagates
read_response(w, buf) ==
    CASE w = "data" -> ALine(Head(buf))
      [] w \in {"timeout", "eof"} -> NoLine
      [] OTHER -> ReadRaised

\* stop_read_loop(): `await self.read_loop_task` raises what the task raised;
\* only CancelledError is caught
stop_raises(t) == t.st = "done" /\ t.out = "raised"

\* asyncio.wait_for() in a cancelled caller: when the inner read has already
\* completed (with a line, with IncompleteReadError or with another error)
\* its outcome is returned and the cancellation is dropped; a read that
\* timed out is cancelled and the cancellation propagates
cancel_swallowed(w) == w \in {"data", "eof", "error"}

\* read_loop(): if response:
truthy(line) == Len(line) > 0

\* asyncio.Lock.release() wakes the first waiter whose future is not done
wake_up_first(w) ==
    IF w # <<>> /\ ~w[1].done THEN [w EXCEPT ![1].done = TRUE] ELSE w

woken_by_release(w) ==
    IF w # <<>> /\ ~w[1].done THEN <<CallerId(w[1].who)>> ELSE <<>>

RECURSIVE without(_, _)
without(w, c) ==
    IF w = <<>> THEN <<>>
    ELSE IF Head(w).who = c THEN without(Tail(w), c)
    ELSE <<Head(w)>> \o without(Tail(w), c)

RECURSIVE as_ready(_)
as_ready(cs) ==
    IF cs = <<>> THEN <<>> ELSE <<CallerId(Head(cs))>> \o as_ready(Tail(cs))

\* ---- the application ------------------------------------------------------
\* connect(): open the serial connection, start_read_loop()
Connect ==
    /\ ~connected
    /\ connected' = TRUE
    /\ ntasks' = ntasks + 1
    /\ read_loop_task' = ntasks + 1
    /\ task' = [task EXCEPT ![ntasks + 1] = NewTask]
    /\ ready' = Append(ready, TaskId(ntasks + 1))
    /\ UNCHANGED <<serviceVars, engineVars, lockVars, awaiting, streamVars, pc, wake,
                   callVars, read_responses, responses, result, outcome,
                   acq, rel, restarted, histVars>>

\* the application task has made a call before
HasCalled(c) == pc[c] # "idle" \/ result[c].kind # "none"

\* an application task calls send_command(command) ("cmd") or
\* lock() followed by unlock() ("lock").  The application tasks are
\* interchangeable: they are numbered in the order of their first call.
Call(c, k) ==
    /\ connected
    /\ pc[c] = "idle"
    /\ \A d \in Callers : d < c => HasCalled(d)
    /\ calls_left > 0
    /\ calls_left' = calls_left - 1
    /\ issued_closed' = [issued_closed EXCEPT ![c] = _close]
    /\ kind' = [kind EXCEPT ![c] = k]
    /\ pc' = [pc EXCEPT ![c] = "start"]
    /\ ready' = Append(ready, CallerId(c))
    /\ read_responses' = [read_responses EXCEPT ![c] = <<>>]
    /\ responses' = [responses EXCEPT ![c] = <<>>]
    /\ result' = [result EXCEPT ![c] = NoResult]
    /\ outcome' = [outcome EXCEPT ![c] = "none"]
    /\ acq' = [acq EXCEPT ![c] = 0]
    /\ rel' = [rel EXCEPT ![c] = 0]
    /\ restarted' = [restarted EXCEPT ![c] = FALSE]
    /\ wake' = [wake EXCEPT ![c] = "none"]
    /\ UNCHANGED <<closeVars, drainVars, urc_log, engineVars, lockVars, taskVars, connected, streamVars,
                   awaited, histVars>>

\* lock() failed: send_command catches it; a bare lock() raises to its caller
LockFailed(c) ==
    /\ outcome' = [outcome EXCEPT ![c] = "lockerr"]
    /\ IF kind[c] = "cmd"
       THEN /\ pc' = [pc EXCEPT ![c] = "except"]
            /\ result' = result
            /\ ready' = ready
       ELSE /\ pc' = [pc EXCEPT ![c] = "idle"]
            /\ result' = [result EXCEPT ![c] = Raised]
            /\ ready' = Tail(ready)

\* lock() -> stop_read_loop(): cancel the task and await it
StopReadLoop(c) ==
    /\ Running(CallerId(c))
    /\ pc[c] = "start"
    /\ LET t == read_loop_task IN
       IF t = 0
       THEN /\ pc' = [pc EXCEPT ![c] = "acquire"]
            /\ UNCHANGED <<task, awaiting, awaited, ready, result, outcome>>
       ELSE IF task[t].st = "done"
       THEN \* cancel() does nothing; the await completes at once
            /\ awaited' = [awaited EXCEPT ![c] = t]
            /\ UNCHANGED <<task, awaiting>>
            /\ IF stop_raises(task[t])
               THEN LockFailed(c)
               ELSE /\ pc' = [pc EXCEPT ![c] = "acquire"]
                    /\ UNCHANGED <<ready, result, outcome>>
       ELSE /\ awaited' = [awaited EXCEPT ![c] = t]
            /\ awaiting' = [awaiting EXCEPT ![t] = Append(@, c)]
            /\ pc' = [pc EXCEPT ![c] = "awaitTask"]
            /\ UNCHANGED <<result, outcome>>
            /\ IF task[t].st = "wait"
               THEN \* the pending read is cancelled, the task is scheduled
                    /\ task' = [task EXCEPT ![t].st = "woken",
                                            ![t].wake = "cancel"]
                    /\ ready' = Append(Tail(ready), TaskId(t))
               ELSE \* not suspended in a pending future: _must_cancel
                    /\ task' = [task EXCEPT ![t].mc = TRUE]
                    /\ ready' = Tail(ready)
    /\ UNCHANGED <<serviceVars, engineVars, lockVars, read_loop_task, ntasks, connected,
                   streamVars, kind, calls_left, wake, read_responses, responses,
                   acq, rel, restarted, histVars>>

\* stop_read_loop(): the awaited task has finished
StopReadLoopResume(c) ==
    /\ Running(CallerId(c))
    /\ pc[c] = "taskWoken"
    /\ IF stop_raises(task[awaited[c]])
       THEN LockFailed(c)
       ELSE /\ pc' = [pc EXCEPT ![c] = "acquire"]
            /\ UNCHANGED <<ready, result, outcome>>
    /\ UNCHANGED <<serviceVars, engineVars, lockVars, taskVars, connected, streamVars,
                   callVars, wake, read_responses, responses, acq, rel,
                   restarted, histVars>>

AfterLock(c) == IF kind[c] = "cmd" THEN "write" ELSE "finally"

\* lock(): await self._lock.acquire()
Acquire(c) ==
    /\ Running(CallerId(c))
    /\ pc[c] = "acquire"
    /\ IF acquire_now(locked, waiters)
       THEN /\ locked' = TRUE
            /\ holder' = c
            /\ acq' = [acq EXCEPT ![c] = @ + 1]
            /\ pc' = [pc EXCEPT ![c] = AfterLock(c)]
            /\ UNCHANGED <<waiters, ready>>
       ELSE /\ waiters' = Append(waiters, [who |-> c, done |-> FALSE])
            /\ pc' = [pc EXCEPT ![c] = "awaitLock"]
            /\ ready' = Tail(ready)
            /\ UNCHANGED <<locked, holder, acq>>
    /\ UNCHANGED <<serviceVars, engineVars, taskVars, connected, streamVars, callVars,
                   wake, read_responses, responses, result, outcome, rel,
                   restarted, histVars>>

\* acquire(): the waiter's future was set by release()
AcquireResume(c) ==
    /\ Running(CallerId(c))
    /\ pc[c] = "lockWoken"
    /\ waiters' = without(waiters, c)
    /\ locked' = TRUE
    /\ holder' = c
    /\ acq' = [acq EXCEPT ![c] = @ + 1]
    /\ pc' = [pc EXCEPT ![c] = AfterLock(c)]
    /\ UNCHANGED <<serviceVars, engineVars, taskVars, ready, connected, streamVars,
                   callVars, wake, read_responses, responses, result,
                   outcome, rel, restarted, histVars>>

\* write(): writer.write(...); await writer.drain()
Write(c) ==
    /\ Running(CallerId(c))
    /\ pc[c] = "write"
    /\ \E o \in {"ok", "paused", "error"} :
         CASE o = "ok" ->
                /\ pc' = [pc EXCEPT ![c] = "read"]
                /\ UNCHANGED <<ready, outcome>>
           [] o = "paused" ->
                /\ pc' = [pc EXCEPT ![c] = "awaitDrain"]
                /\ ready' = Tail(ready)
                /\ UNCHANGED outcome
           [] o = "error" ->
                /\ pc' = [pc EXCEPT ![c] = "except"]
                /\ outcome' = [outcome EXCEPT ![c] = "writeerr"]
                /\ UNCHANGED ready
    /\ UNCHANGED <<serviceVars, engineVars, lockVars, taskVars, connected, streamVars,
                   callVars, wake, read_responses, responses, result, acq,
                   rel, restarted, histVars>>

\* the transport resumed writing: drain() completes
DrainDone(c) ==
    /\ pc[c] = "awaitDrain"
    /\ pc' = [pc EXCEPT ![c] = "read"]
    /\ ready' = Append(ready, CallerId(c))
    /\ UNCHANGED <<serviceVars, engineVars, lockVars, taskVars, connected, streamVars,
                   callVars, wake, read_responses, responses, result,
                   outcome, acq, rel, restarted, histVars>>

\* read() -> read_response(): wait_for(self.reader.readuntil(...))
ReadResponse(c) ==
    /\ Running(CallerId(c))
    /\ pc[c] = "read"
    /\ IF reader # NoOne
       THEN \* readuntil() called while another coroutine is waiting
            /\ pc' = [pc EXCEPT ![c] = "except"]
            /\ outcome' = [outcome EXCEPT ![c] = "readerr"]
            /\ UNCHANGED <<reader, ready>>
       ELSE /\ reader' = CallerId(c)
            /\ pc' = [pc EXCEPT ![c] = "awaitRead"]
            /\ ready' = Tail(ready)
            /\ UNCHANGED outcome
    /\ UNCHANGED <<serviceVars, engineVars, lockVars, taskVars, connected, buffer, eof,
                   feeds_left, callVars, wake, read_responses, responses, result,
                   acq, rel, restarted, histVars>>

\* read(): one pass of the while loop after read_response() completed
ReadResume(c) ==
    /\ Running(CallerId(c))
    /\ pc[c] = "readWoken"
    /\ reader' = NoOne
    /\ CASE read_response(wake[c], buffer).kind = "line" ->
              LET line == read_response(wake[c], buffer).val
                  collected == read_collect(line, urc, read_responses[c])
              IN  /\ buffer' = Tail(buffer)
                  /\ ntaken' = ntaken + 1
                  /\ urc_buffer' = read_urc_buffer(line, urc, urc_buffer)
                  /\ urc_log' = read_urc_buffer(line, urc, urc_log)
                  /\ nurc' = nurc + Len(urc_buffer') - Len(urc_buffer)
                  /\ read_responses' = [read_responses EXCEPT ![c] = collected]
                  /\ IF is_terminator(line)
                     THEN /\ responses' = [responses EXCEPT ![c] = collected]
                          /\ outcome' = [outcome EXCEPT ![c] = "ok"]
                          /\ pc' = [pc EXCEPT ![c] = "finally"]
                     ELSE /\ pc' = [pc EXCEPT ![c] = "read"]
                          /\ UNCHANGED <<responses, outcome>>
         [] read_response(wake[c], buffer).kind = "none" ->
              \* read_response() returned None: bytes(None) raises TypeError
              /\ pc' = [pc EXCEPT ![c] = "except"]
              /\ outcome' = [outcome EXCEPT ![c] = "noresp"]
              /\ UNCHANGED <<buffer, urc_buffer, urc_log, nurc, ntaken,
                             read_responses, responses>>
         [] read_response(wake[c], buffer).kind = "raised" ->
              \* readuntil() raised something read_response() does not catch
              /\ pc' = [pc EXCEPT ![c] = "except"]
              /\ outcome' = [outcome EXCEPT ![c] = "readerr"]
              /\ UNCHANGED <<buffer, urc_buffer, urc_log, nurc, ntaken,
                             read_responses, responses>>
    /\ wake' = [wake EXCEPT ![c] = "none"]
    /\ UNCHANGED <<closeVars, drainVars, issued_closed, urc, lockVars, taskVars, ready, connected, eof, feeds_left,
                   callVars, result, acq, rel, restarted, nret, nbg>>

\* send_command(): except Exception: log, responses = []
Except(c) ==
    /\ Running(CallerId(c))
    /\ pc[c] = "except"
    /\ responses' = [responses EXCEPT ![c] = except_responses(read_responses[c])]
    /\ pc' = [pc EXCEPT ![c] = "finally"]
    /\ UNCHANGED <<serviceVars, engineVars, lockVars, taskVars, ready, connected,
                   streamVars, callVars, wake, read_responses, result,
                   outcome, acq, rel, restarted, histVars>>

\* send_command(): finally: self.unlock(); return responses
\* unlock(): self._lock.release(); self.start_read_loop()
Unlock(c) ==
    /\ Running(CallerId(c))
    /\ pc[c] = "finally"
    /\ rel' = [rel EXCEPT ![c] = @ + 1]
    /\ IF locked
       THEN /\ locked' = released(locked)
            /\ holder' = IF released(locked) THEN holder ELSE 0
            /\ waiters' = wake_up_first(waiters)
            /\ ntasks' = ntasks + 1
            /\ read_loop_task' = ntasks + 1
            /\ task' = [task EXCEPT ![ntasks + 1] = NewTask]
            /\ ready' = Tail(ready) \o woken_by_release(waiters)
                                    \o <<TaskId(ntasks + 1)>>
            /\ pc' = [d \in Callers |->
                        IF d = c THEN "idle"
                        ELSE IF woken_by_release(waiters) = <<CallerId(d)>>
                        THEN "lockWoken"
                        ELSE pc[d]]
            /\ restarted' = [restarted EXCEPT ![c] = TRUE]
            /\ result' = [result EXCEPT ![c] = Returned(responses[c])]
            /\ nret' = nret + Len(responses[c])
       ELSE \* release() raises RuntimeError('Lock is not acquired.')
            /\ pc' = [pc EXCEPT ![c] = "idle"]
            /\ ready' = Tail(ready)
            /\ result' = [result EXCEPT ![c] = Raised]
            /\ UNCHANGED <<lockVars, read_loop_task, task, ntasks, restarted,
                           nret>>
    /\ UNCHANGED <<serviceVars, engineVars, awaiting, connected, streamVars, callVars,
                   wake, read_responses, responses, outcome, acq, nurc,
                   nbg, ntaken>>

\* ---- the serial stream ----------------------------------------------------
\* the modem emits one line while a read is pending: feed_data() appends
\* it to the buffer and wakes the coroutine waiting in readuntil().  (A line
\* arriving while nobody reads behaves as one arriving at the next read.)
Feed(l) ==
    /\ connected
    /\ ~eof
    /\ feeds_left > 0
    /\ buffer = <<>>
    /\ \/ \E c \in Callers :
             /\ reader = CallerId(c)
             /\ pc[c] = "awaitRead"
             /\ pc' = [pc EXCEPT ![c] = "readWoken"]
             /\ wake' = [wake EXCEPT ![c] = "data"]
             /\ ready' = Append(ready, CallerId(c))
             /\ UNCHANGED task
       \/ \E t \in TaskIds :
             /\ reader = TaskId(t)
             /\ task[t].st = "wait"
             /\ task' = [task EXCEPT ![t].st = "woken", ![t].wake = "data"]
             /\ ready' = Append(ready, TaskId(t))
             /\ UNCHANGED <<pc, wake>>
    /\ feeds_left' = feeds_left - 1
    /\ buffer' = Append(buffer, l)
    /\ UNCHANGED <<serviceVars, engineVars, lockVars, read_loop_task, awaiting, ntasks,
                   connected, reader, eof, callVars, read_responses,
                   responses, result, outcome, acq, rel, restarted, histVars>>

\* the stream closes (feed_eof)
StreamClosed ==
    /\ connected
    /\ ~eof
    /\ eof' = TRUE
    /\ UNCHANGED <<serviceVars, engineVars, lockVars, taskVars, ready, connected, buffer,
                   reader, feeds_left, pc, wake, callVars, read_responses,
                   responses, result, outcome, acq, rel, restarted, histVars>>

\* what a pending wait_for(readuntil()) can complete with
CanWake(w) ==
    \/ w = "data" /\ buffer # <<>>
    \/ w = "timeout" /\ buffer = <<>> /\ ~eof
    \/ w = "eof" /\ buffer = <<>> /\ eof
    \/ w = "error"

WakeKinds == {"data", "timeout", "eof", "error"}

\* the pending read of a command transaction completes
ReadWakeCaller(c, w) ==
    /\ reader = CallerId(c)
    /\ pc[c] = "awaitRead"
    /\ CanWake(w)
    /\ pc' = [pc EXCEPT ![c] = "readWoken"]
    /\ wake' = [wake EXCEPT ![c] = w]
    /\ ready' = Append(ready, CallerId(c))
    /\ UNCHANGED <<serviceVars, engineVars, lockVars, taskVars, connected, streamVars,
                   callVars, read_responses, responses, result, outcome,
                   acq, rel, restarted, histVars>>

\* the pending read of the background loop completes
ReadWakeTask(t, w) ==
    /\ reader = TaskId(t)
    /\ task[t].st = "wait"
    /\ CanWake(w)
    /\ task' = [task EXCEPT ![t].st = "woken", ![t].wake = w]
    /\ ready' = Append(ready, TaskId(t))
    /\ UNCHANGED <<serviceVars, engineVars, lockVars, read_loop_task, awaiting, ntasks,
                   connected, streamVars, pc, wake, callVars, read_responses,
                   responses, result, outcome, acq, rel, restarted, histVars>>

\* ---- the background reader loop ---------------------------------------------
\* the task ends: the callers awaiting it are scheduled in order
TaskEnds(t, o) ==
    /\ task' = [task EXCEPT ![t] = DoneTask(o)]
    /\ ready' = Tail(ready) \o as_ready(awaiting[t])
    /\ awaiting' = [awaiting EXCEPT ![t] = <<>>]
    /\ pc' = [c \in Callers |->
                IF pc[c] = "awaitTask" /\ awaited[c] = t
                THEN "taskWoken" ELSE pc[c]]

\* read_loop(): first step of the task
ReadLoopStart(t) ==
    /\ Running(TaskId(t))
    /\ task[t].st = "new"
    /\ IF task[t].mc
       THEN TaskEnds(t, "cancelled")
       ELSE IF entry_check(locked)
       THEN TaskEnds(t, "skipped")
       ELSE /\ task' = [task EXCEPT ![t].st = "loop"]
            /\ UNCHANGED <<ready, awaiting, pc>>
    /\ UNCHANGED <<serviceVars, engineVars, lockVars, read_loop_task, ntasks, connected,
                   streamVars, wake, callVars, read_responses, responses,
                   result, outcome, acq, rel, restarted, histVars>>

\* read_loop(): response = await self.read_response()
ReadLoopRead(t) ==
    /\ Running(TaskId(t))
    /\ task[t].st = "loop"
    /\ IF reader # NoOne
       THEN \* readuntil() called while another coroutine is waiting
            /\ TaskEnds(t, "raised")
            /\ UNCHANGED reader
       ELSE /\ reader' = TaskId(t)
            /\ task' = [task EXCEPT ![t].st = "wait"]
            /\ ready' = Tail(ready)
            /\ UNCHANGED <<awaiting, pc>>
    /\ UNCHANGED <<serviceVars, engineVars, lockVars, read_loop_task, ntasks, connected,
                   buffer, eof, feeds_left, wake, callVars, read_responses,
                   responses, result, outcome, acq, rel, restarted, histVars>>

\* read_loop(): the read completed or the task was cancelled.  A task that
\* is cancelled after its read completed and before it resumed either ends
\* (the CancelledError is thrown at its await) or, where wait_for returns
\* the outcome of a completed inner read to a cancelled caller, goes on
\* with that outcome and loses the cancellation.
ReadLoopResume(t) ==
    /\ Running(TaskId(t))
    /\ task[t].st = "woken"
    /\ reader' = IF reader = TaskId(t) THEN NoOne ELSE reader
    /\ \/ /\ task[t].mc \/ task[t].wake = "cancel"
          \* except asyncio.CancelledError: return
          /\ TaskEnds(t, "returned")
          /\ UNCHANGED <<buffer, nbg, ntaken>>
       \/ /\ IF task[t].mc
             THEN cancel_swallowed(task[t].wake)
             ELSE task[t].wake # "cancel"
          /\ CASE read_response(task[t].wake, buffer).kind = "line" ->
                   LET line == read_response(task[t].wake, buffer).val IN
                   /\ buffer' = Tail(buffer)
                   /\ nbg' = nbg + 1
                   /\ ntaken' = ntaken + 1
                   /\ IF truthy(line)
                      THEN \* await self.urc_handler(response)
                           \/ /\ task' = [task EXCEPT ![t].st = "loop",
                                                      ![t].mc = FALSE,
                                                      ![t].wake = "none"]
                              /\ UNCHANGED <<ready, awaiting, pc>>
                           \/ TaskEnds(t, "raised")
                      ELSE /\ task' = [task EXCEPT ![t].st = "loop",
                                                   ![t].mc = FALSE,
                                                   ![t].wake = "none"]
                           /\ UNCHANGED <<ready, awaiting, pc>>
              [] read_response(task[t].wake, buffer).kind = "none" ->
                   \* read_response() returned None
                   /\ task' = [task EXCEPT ![t].st = "loop",
                                           ![t].mc = FALSE,
                                           ![t].wake = "none"]
                   /\ UNCHANGED <<ready, awaiting, pc, buffer, nbg, ntaken>>
              [] read_response(task[t].wake, buffer).kind = "raised" ->
                   \* only CancelledError is caught: the task dies
                   /\ TaskEnds(t, "raised")
                   /\ UNCHANGED <<buffer, nbg, ntaken>>
    /\ UNCHANGED <<serviceVars, engineVars, lockVars, read_loop_task, ntasks,
                   connected, eof, feeds_left, wake, callVars, read_responses,
                   responses, result, outcome, acq, rel, restarted, nret, nurc>>

\* ---- the system -------------------------------------------------------------
Next ==
    \/ Connect
    \/ \E c \in Callers, k \in {"cmd", "lock"} : Call(c, k)
    \/ \E c \in Callers : StopReadLoop(c)
    \/ \E c \in Callers : StopReadLoopResume(c)
    \/ \E c \in Callers : Acquire(c)
    \/ \E c \in Callers : AcquireResume(c)
    \/ \E c \in Callers : Write(c)
    \/ \E c \in Callers : DrainDone(c)
    \/ \E c \in Callers : ReadResponse(c)
    \/ \E c \in Callers : ReadResume(c)
    \/ \E c \in Callers : Except(c)
    \/ \E c \in Callers : Unlock(c)
    \/ \E l \in Lines : Feed(l)
    \/ StreamClosed
    \/ \E c \in Callers, w \in WakeKinds : ReadWakeCaller(c, w)
    \/ \E t \in TaskIds, w \in WakeKinds : ReadWakeTask(t, w)
    \/ \E t \in TaskIds : ReadLoopStart(t)
    \/ \E t \in TaskIds : ReadLoopRead(t)
    \/ \E t \in TaskIds : ReadLoopResume(t)

Spec == Init /\ [][Next]_vars

\* The same engine with a modem that stays silent and a stream that stays
\* open: no line arrives, a pending read ends by timeout or by an error.
\* The application makes more calls.
QuietInit == Constructed({PrefixCMTI}, MaxQuietCalls, 0)

QuietNext ==
    \/ Connect
    \/ \E c \in Callers, k \in {"cmd", "lock"} : Call(c, k)
    \/ \E c \in Callers : StopReadLoop(c)
    \/ \E c \in Callers : StopReadLoopResume(c)
    \/ \E c \in Callers : Acquire(c)
    \/ \E c \in Callers : AcquireResume(c)
    \/ \E c \in Callers : Write(c)
    \/ \E c \in Callers : DrainDone(c)
    \/ \E c \in Callers : ReadResponse(c)
    \/ \E c \in Callers : ReadResume(c)
    \/ \E c \in Callers : Except(c)
    \/ \E c \in Callers : Unlock(c)
    \/ \E c \in Callers, w \in WakeKinds : ReadWakeCaller(c, w)
    \/ \E t \in TaskIds, w \in WakeKinds : ReadWakeTask(t, w)
    \/ \E t \in TaskIds : ReadLoopStart(t)
    \/ \E t \in TaskIds : ReadLoopRead(t)
    \/ \E t \in TaskIds : ReadLoopResume(t)

QuietSpec == QuietInit /\ [][QuietNext]_vars

\* The event loop runs the coroutine at the head of its queue.
Step ==
    \/ \E c \in Callers :
          \/ StopReadLoop(c) \/ StopReadLoopResume(c) \/ Acquire(c)
          \/ AcquireResume(c) \/ Write(c) \/ ReadResponse(c) \/ ReadResume(c)
          \/ Except(c) \/ Unlock(c)
    \/ \E t \in TaskIds : ReadLoopStart(t) \/ ReadLoopRead(t) \/ ReadLoopResume(t)

\* wait_for(..., timeout) completes every pending read of a transaction
ReadCompletes == \E c \in Callers, w \in WakeKinds : ReadWakeCaller(c, w)

\* the transport eventually takes the bytes written
Drains == \E c \in Callers : DrainDone(c)

FairSpec ==
    /\ Spec
    /\ WF_vars(Step)
    /\ WF_vars(ReadCompletes)
    /\ WF_vars(Drains)

\* ---- close() ------------------------------------------------------------------
\* the application calls close()
CallClose ==
    /\ connected
    /\ closer = "idle"
    /\ closer' = "start"
    /\ ready' = Append(ready, Closer)
    /\ UNCHANGED <<engineVars, lockVars, taskVars, connected, streamVars,
                   transVars, _close, drainVars, urc_log, issued_closed>>

\* close(): self._close = True; self.writer.close(); the transport
\* schedules connection_lost; await self.writer.wait_closed()
Close ==
    /\ Running(Closer)
    /\ closer = "start"
    /\ _close' = TRUE
    /\ closer' = "waitClosed"
    /\ ready' = Tail(ready) \o <<ConnectionLostCallback>>
    /\ UNCHANGED <<engineVars, lockVars, taskVars, connected, streamVars,
                   transVars, drainVars, urc_log, issued_closed>>

\* connection_lost: the reader is fed EOF and wait_closed() completes
ConnectionLost ==
    /\ Running(ConnectionLostCallback)
    /\ eof' = TRUE
    /\ closer' = "woken"
    /\ ready' = Tail(ready) \o <<Closer>>
    /\ UNCHANGED <<engineVars, lockVars, taskVars, connected, buffer, reader,
                   feeds_left, transVars, _close, drainVars, urc_log,
                   issued_closed>>

\* close() returns
CloseReturn ==
    /\ Running(Closer)
    /\ closer = "woken"
    /\ closer' = "done"
    /\ ready' = Tail(ready)
    /\ UNCHANGED <<engineVars, lockVars, taskVars, connected, streamVars,
                   transVars, _close, drainVars, urc_log, issued_closed>>

\* ---- urc_handler_loop() -------------------------------------------------------
\* a drain pass that removes the newest entry
urc_handler_pass_newest(ubuf) ==
    IF ubuf # <<>>
    THEN [left |-> SubSeq(ubuf, 1, Len(ubuf) - 1), popped |-> <<ubuf[Len(ubuf)]>>]
    ELSE [left |-> ubuf, popped |-> <<>>]

\* urc_handler_loop(): if self.urc_buffer: ...(self.urc_buffer.pop(0))
urc_handler_pass(ubuf) ==
    IF ubuf # <<>>
    THEN [left |-> Tail(ubuf), popped |-> <<Head(ubuf)>>]
    ELSE [left |-> ubuf, popped |-> <<>>]

\* the application starts urc_handler_loop() as a task
StartDrain ==
    /\ connected
    /\ drain.st = "none"
    /\ drain' = [drain EXCEPT !.st = "new"]
    /\ ready' = Append(ready, Drainer)
    /\ UNCHANGED <<engineVars, lockVars, taskVars, connected, streamVars,
                   transVars, closeVars, cancel_req, drained, urc_log,
                   issued_closed>>

\* first step of the drain task: a task cancelled before it ran never
\* enters the coroutine
DrainStart ==
    /\ Running(Drainer)
    /\ drain.st = "new"
    /\ IF drain.mc
       THEN /\ drain' = [st |-> "done", mc |-> FALSE]
            /\ ready' = Tail(ready)
       ELSE /\ drain' = [drain EXCEPT !.st = "run"]
            /\ ready' = ready
    /\ UNCHANGED <<engineVars, lockVars, taskVars, connected, streamVars,
                   transVars, closeVars, cancel_req, drained, urc_log,
                   issued_closed>>

\* urc_handler_loop(): one pass of `while True`; there is no await in the
\* loop, so the task keeps the event loop
DrainPass ==
    /\ Running(Drainer)
    /\ drain.st = "run"
    /\ urc_buffer' = urc_handler_pass(urc_buffer).left
    /\ drained' = drained \o urc_handler_pass(urc_buffer).popped
    /\ UNCHANGED <<urc, lockVars, taskVars, ready, connected, streamVars,
                   transVars, closeVars, drain, cancel_req, urc_log,
                   issued_closed>>

\* Task.cancel() of the drain task.  Before the task's first step it is
\* called by a coroutine that runs ahead of it, and marks the task.  Once the
\* task runs, no coroutine runs any more: the request can only come from
\* outside the event loop (loop.call_soon_threadsafe(task.cancel)), and its
\* callback queues behind the drain task.
CancelDrain ==
    /\ drain.st \in {"new", "run"}
    /\ ~cancel_req
    /\ cancel_req' = TRUE
    /\ IF drain.st = "new"
       THEN /\ drain' = [drain EXCEPT !.mc = TRUE]
            /\ ready' = ready
       ELSE /\ drain' = drain
            /\ ready' = Append(ready, CancelCallback)
    /\ UNCHANGED <<engineVars, lockVars, taskVars, connected, streamVars,
                   transVars, closeVars, drained, urc_log, issued_closed>>

\* The engine with its close() and its URC drain task, in front of an
\* application that makes MaxServiceCalls calls and a modem that emits up to
\* MaxServiceFeed lines.
ServiceInit == Constructed({PrefixCMTI}, MaxServiceCalls, MaxServiceFeed)

ServiceNext ==
    \/ Connect
    \/ \E c \in Callers : Call(c, "cmd")
    \/ \E c \in Callers : StopReadLoop(c)
    \/ \E c \in Callers : StopReadLoopResume(c)
    \/ \E c \in Callers : Acquire(c)
    \/ \E c \in Callers : AcquireResume(c)
    \/ \E c \in Callers : Write(c)
    \/ \E c \in Callers : DrainDone(c)
    \/ \E c \in Callers : ReadResponse(c)
    \/ \E c \in Callers : ReadResume(c)
    \/ \E c \in Callers : Except(c)
    \/ \E c \in Callers : Unlock(c)
    \/ \E l \in ServiceLines : Feed(l)
    \/ \E c \in Callers, w \in WakeKinds : ReadWakeCaller(c, w)
    \/ \E t \in TaskIds, w \in WakeKinds : ReadWakeTask(t, w)
    \/ \E t \in TaskIds : ReadLoopStart(t)
    \/ \E t \in TaskIds : ReadLoopRead(t)
    \/ \E t \in TaskIds : ReadLoopResume(t)
    \/ CallClose
    \/ Close
    \/ ConnectionLost
    \/ CloseReturn
    \/ StartDrain
    \/ DrainStart
    \/ DrainPass
    \/ CancelDrain

ServiceSpec == ServiceInit /\ [][ServiceNext]_vars

\* The event loop runs whatever is at the head of its queue.
ServiceStep ==
    \/ Step
    \/ Close
    \/ ConnectionLost
    \/ CloseReturn
    \/ DrainStart
    \/ DrainPass

FairServiceSpec == ServiceSpec /\ WF_vars(ServiceStep)

\* ---- properties ---------------------------------------------------------------
AllIdle == \A c \in Callers : pc[c] = "idle"

\* a read_loop task that is past its entry check and has not ended
LoopRunning(t) == task[t].st \in {"loop", "wait", "woken"}

\* a caller between the start of its write and the return of its results
InTransaction(c) ==
    /\ kind[c] = "cmd"
    /\ outcome[c] # "lockerr"
    /\ pc[c] \in {"write", "awaitDrain", "read", "awaitRead", "readWoken",
                  "except", "finally"}

Finished(c) == pc[c] = "idle" /\ result[c].kind # "none"

\* C1: while a command transaction holds the transaction lock no background
\* read_loop task is past its entry check and still alive; in particular no
\* background loop has a stream read under way while a transaction has one.
C1_NoLoopWhileLocked ==
    \A t \in TaskIds :
        LoopRunning(t) =>
            \A c \in Callers : ~(InTransaction(c) /\ holder = c)

\* C2: at most one caller is between the start of its write and the return
\* of its results.
C2_OneTransaction ==
    Cardinality({c \in Callers : InTransaction(c)}) <= 1

\* C3: every transaction calls release() only after its own acquire(), and a
\* finished send_command has acquired once and released once.
C3_Balanced ==
    \A c \in Callers :
        /\ rel[c] <= acq[c]
        /\ (Finished(c) /\ kind[c] = "cmd") => (acq[c] = 1 /\ rel[c] = 1)

\* lock() of a further call would get through stop_read_loop() and take the
\* lock at once
can_lock ==
    /\ read_loop_task # 0 => ~stop_raises(task[read_loop_task])
    /\ acquire_now(locked, waiters)

\* C4: a caller that holds the lock eventually gives it up, a caller that
\* has returned does not hold it, and when every call has returned the lock
\* is free with nobody waiting and a further send_command can take it.
C4_LockReleased ==
    /\ [](\A c \in Callers : pc[c] = "idle" => holder # c)
    /\ []((AllIdle /\ \E c \in Callers : Finished(c) /\ acq[c] > 0)
            => can_lock)
    /\ \A c \in Callers : (holder = c) ~> (holder # c)

NoUrcIn(seq) == \A i \in DOMAIN seq : ~matches_urc(seq[i], urc)

\* C5: no line that starts with a registered URC prefix is ever in a
\* command's collected or returned lines, and the step of read() that takes
\* such a line appends it at the tail of the URC buffer and leaves the
\* collected lines as they were.
C5_UrcDiverted ==
    /\ [](\A c \in Callers :
            /\ NoUrcIn(read_responses[c])
            /\ NoUrcIn(responses[c])
            /\ NoUrcIn(result[c].val))
    /\ [][\A c \in Callers :
            (/\ pc[c] = "readWoken" /\ pc'[c] # "readWoken"
             /\ wake[c] = "data"
             /\ matches_urc(Head(buffer), urc))
            => /\ urc_buffer' = Append(urc_buffer, Head(buffer))
               /\ read_responses'[c] = read_responses[c]]_vars

\* C5 witness: a transaction collected a line of its own, then a URC line
\* arrived and went to the URC buffer.
C5_Witness ==
    \E c \in Callers :
        /\ pc[c] = "read"
        /\ read_responses[c] = <<LineCREG>>
        /\ urc_buffer = <<LineCMTI>>
        /\ ntaken = 2 /\ nbg = 0

\* C6: a transaction ended by the terminator line returns the non-URC lines
\* before the terminator and not the terminator line itself.
C6_TerminatorExcluded ==
    \A c \in Callers :
        (Finished(c) /\ outcome[c] = "ok") =>
            /\ result[c].kind = "returned"
            /\ \A i \in DOMAIN result[c].val :
                  ~is_terminator(result[c].val[i])

\* C7: a transaction ended by a no-response read returns the lines it
\* collected before that read.
C7_NoResponseReturnsCollected ==
    \A c \in Callers :
        (Finished(c) /\ outcome[c] = "noresp") =>
            result[c] = Returned(read_responses[c])

\* C8: a transaction in which the write or a read raised returns the empty
\* sequence, raises nothing to its caller, and has released the lock.
C8_ExceptionGivesEmpty ==
    \A c \in Callers :
        (Finished(c) /\ outcome[c] \in {"writeerr", "readerr", "noresp"}) =>
            /\ result[c] = Returned(<<>>)
            /\ holder # c
            /\ rel[c] = 1

\* C9: when no call is in progress, every line taken from the stream is in
\* exactly one of: a command result, the URC buffer, the background path.
C9_ExactlyOnce ==
    AllIdle => (ntaken = nret + nurc + nbg)

\* C10: every unlock() restarts the background loop.
C10_UnlockRestarts ==
    \A c \in Callers :
        (pc[c] = "idle" /\ rel[c] > 0) => restarted[c]

\* a completed read found no separator: the timeout expired on a silent
\* stream, or the stream closed
NoSeparator(w) ==
    \/ w = "timeout" /\ buffer = <<>>
    \/ w = "eof" /\ buffer = <<>> /\ eof

\* C11: read_response returns None exactly when the read ended by the
\* timeout or by the stream closing before a separator, and raises nothing
\* then: the transaction goes on with None (its no-response outcome) and
\* the background loop goes on to its next read.
C11_NoResponseSentinel ==
    /\ [](\A c \in Callers :
            pc[c] = "readWoken" =>
                (read_response(wake[c], buffer) = NoLine <=> NoSeparator(wake[c])))
    /\ [](\A t \in TaskIds :
            (task[t].st = "woken" /\ task[t].wake # "cancel") =>
                (read_response(task[t].wake, buffer) = NoLine
                    <=> NoSeparator(task[t].wake)))
    /\ [][\A c \in Callers :
            (pc[c] = "readWoken" /\ pc'[c] # "readWoken") =>
                (outcome'[c] = "noresp" <=> NoSeparator(wake[c]))]_vars

\* C11 witness: a transaction's read timed out on a silent stream and the
\* transaction went on with None.
C11_Witness ==
    \E c \in Callers :
        /\ pc[c] = "except"
        /\ outcome[c] = "noresp"
        /\ ~eof
        /\ buffer = <<>>

\* C12: once close() has returned, no background loop task is past its entry
\* check and still alive, and none has a read pending on the stream.
C12_CloseStopsLoop ==
    closer = "done" =>
        /\ \A t \in TaskIds : ~LoopRunning(t)
        /\ \A t \in TaskIds : reader # TaskId(t)

\* C13: a call issued after close() marked the engine takes no lock and
\* writes nothing, and no step taken after the mark starts a loop task.
C13_NoOperationAfterClose ==
    /\ [](\A c \in Callers :
            issued_closed[c] =>
                /\ acq[c] = 0
                /\ pc[c] \notin {"write", "awaitDrain", "read"})
    /\ [][_close => ntasks' = ntasks]_vars

\* C14: the lines removed from the URC buffer, followed by the lines still
\* in it, are the lines appended to it, in the order of their arrival; a
\* pass removes at most one line, the oldest; a pass on an empty buffer
\* leaves the buffer and the drain task as they are.
C14_DrainFifo ==
    /\ [](urc_log = drained \o urc_buffer)
    /\ [][drained' # drained =>
            /\ urc_buffer # <<>>
            /\ drained' = Append(drained, Head(urc_buffer))
            /\ urc_buffer' = Tail(urc_buffer)]_vars
    /\ [][(drain.st = "run" /\ urc_buffer = <<>>) =>
            (urc_buffer' = <<>> /\ drain' = drain /\ drained' = drained)]_vars

\* C14 witness: two different URC lines were appended during a transaction
\* and the drain task removed both.
C14_Witness ==
    /\ Len(drained) = 2
    /\ drained[1] # drained[2]
    /\ urc_buffer = <<>>
    /\ drain.st = "run"

\* C15: no background loop task ends by an error: a task that has ended was
\* cancelled (or stopped at its entry check before looping).
C15_LoopEndsOnlyOnCancel ==
    \A t \in TaskIds : task[t].st = "done" => task[t].out # "raised"

\* C16: the step of the background loop that takes a line starting with a
\* registered URC prefix appends that line at the tail of the URC buffer.
C16_LoopBuffersUrc ==
    [][\A t \in TaskIds :
          (/\ task[t].st = "woken" /\ task'[t].st # "woken"
           /\ ~task[t].mc
           /\ read_response(task[t].wake, buffer).kind = "line"
           /\ matches_urc(read_response(task[t].wake, buffer).val, urc))
          => urc_buffer' =
                Append(urc_buffer, read_response(task[t].wake, buffer).val)]_vars

\* C17: no iteration of the background loop starts a stream read while the
\* transaction lock is held.
C17_NoReadStartWhileLocked ==
    [][\A t \in TaskIds :
          (task[t].st = "loop" /\ task'[t].st = "wait") => ~locked]_vars

\* C19: a cancellation requested of the drain task ends the task.
C19_DrainCancellable ==
    cancel_req ~> (drain.st = "done")

\* a read_loop task that was created and has not ended
Alive(t) == task[t].st \notin {"none", "done"}

\* C20: at most one read_loop task is alive, and it is the one
\* read_loop_task refers to.
C20_OneLoopTask ==
    /\ Cardinality({t \in TaskIds : Alive(t)}) <= 1
    /\ \A t \in TaskIds : Alive(t) => read_loop_task = t

\* C18: every send_command goes from Locking to Writing, from Writing to
\* Unlocking and from Unlocking to Idle, none returns without having reached
\* Writing, and each takes the lock once (no retry).
C18_TransactionTerminates ==
    /\ [](\A c \in Callers :
            (Finished(c) /\ kind[c] = "cmd") => outcome[c] # "lockerr")
    /\ \A c \in Callers :
          (pc[c] = "start" /\ kind[c] = "cmd") ~> (pc[c] = "write")
    /\ \A c \in Callers : (pc[c] = "write") ~> (pc[c] = "finally")
    /\ \A c \in Callers : (pc[c] = "finally") ~> Finished(c)
    /\ [](\A c \in Callers : acq[c] <= 1)

====
